---- MODULE Spec2Model ----
(***************************************************************************)
(* A model of the swap I/O path of linux-5.5/mm/page_io.c (Canvas tree):   *)
(*   - generic_swapfile_activate: the extent-table builder;                *)
(*   - swap_writepage / __swap_writepage / end_swap_bio_write;             *)
(*   - swap_readpage / swap_readpage_async / end_swap_bio_read;            *)
(*   - get_swap_bio, swap_page_sector, swap_slot_free_notify.              *)
(* Two specifications share the variables: SpecAct runs the activation     *)
(* scan over every bounded block layout, Spec runs concurrent write and    *)
(* read calls on one page of an activated store; SpecFair is Spec with     *)
(* every opened writeback interval eventually ended, SpecReadFair is Spec  *)
(* with every read request completed and every runnable reader run,        *)
(* SpecActFair is SpecAct with the scan kept running.                      *)
(***************************************************************************)
EXTENDS Integers, Sequences, FiniteSets, TLC

\* ------------------------------------------------------------------ bounds
\* Number of file blocks of the largest backing file (i_size >> blkbits).
MaxFileBlocks == 5
\* Highest physical block number bmap() may return (0 is a hole).
MaxPhysBlock == 6
\* Largest declared maximum slot count (sis->max on entry).
MaxSlots == 4
\* Largest PAGE_SHIFT - blkbits: blocks_per_page ranges over 1 .. 2^MaxBlkShift.
MaxBlkShift == 1
\* Width of sector_t in the model (the code's is 64; every quantity of the
\* model is far below 2^SectorBits, so only the wrap of -1 is visible).
SectorBits == 16
\* Number of distinct page contents.
MaxData == 2
\* Highest slot offset a page may be assigned.
MaxOffset == 1
\* Highest first device block of a file reached through its extents.
MaxStartBlock == 1
\* Number of calls into the path (swap_writepage, swap_readpage,
\* swap_readpage_async, swap_set_page_dirty) made in one behaviour.
MaxCalls == 2

\* --------------------------------------------------------------- constants
EINVAL == 22
ENOMEM == 12
EIO == 5
\* PAGE_SHIFT - 9: a page is 2^3 sectors of 512 bytes.
PageSectorShift == 3
\* PAGE_SIZE, in bytes.
PAGE_SIZE == 4096

VARIABLES
    inode,      \* the backing file: [bmap, last_block, blkshift]
    sis,        \* swap_info_struct: [flags, max, pages, highest_bit, extents, notify]
    sis0,       \* sis as it was when activation was entered
    act,        \* locals of generic_swapfile_activate and its position
    page,       \* the page: its flags, content and slot
    store,      \* content of the device, the file and the front-end cache
    bio,        \* the request each context has built, if any
    ctx,        \* each calling context: position in its call, task state
    stat,       \* event counters
    ghost       \* history: content last written to the slot

actVars == <<inode, sis0, act>>

ioVars == <<page, store, bio, ctx, stat, ghost>>

vars == <<inode, sis, sis0, act, page, store, bio, ctx, stat, ghost>>

\* ------------------------------------------------------------- sector_t
SectorMod == 2 ^ SectorBits

\* sector_t arithmetic is unsigned and wraps.
SectorT(x) == x % SectorMod

\* ------------------------------------------------------------- activation
\* PAGE_SIZE >> blkbits
blocks_per_page == 2 ^ inode.blkshift

\* bmap(inode, block): the physical block of a file block, 0 for a hole.
bmap(block) == inode.bmap[block]

\* The first sub-block of the stride at probe that is not first_block + j,
\* or 0 when the whole stride is physically contiguous (the for loop).
FirstMismatch(probe) ==
    LET bad == {j \in 1 .. (blocks_per_page - 1) : bmap(probe + j) # bmap(probe) + j}
    IN  IF bad = {} THEN 0 ELSE CHOOSE j \in bad : \A k \in bad : j <= k

\* while ((probe_block + blocks_per_page) <= last_block && page_no < sis->max)
LoopCond ==
    /\ act.pc = "loop"
    /\ act.probe_block + blocks_per_page <= inode.last_block
    /\ act.page_no < sis.max

\* add_swap_extent (mm/swapfile.c): merge with the last extent when the new
\* run continues it in both slot and block space, else append a new extent.
\* Returns the number of extents added (0 or 1) and the new extent list.
add_swap_extent(extents, start_page, nr_pages, start_block) ==
    LET n == Len(extents)
    IN  IF /\ n > 0
           /\ extents[n].start_page + extents[n].nr_pages = start_page
           /\ extents[n].start_block + extents[n].nr_pages = start_block
        THEN [ret |-> 0,
              extents |-> [extents EXCEPT ![n].nr_pages = @ + nr_pages]]
        ELSE [ret |-> 1,
              extents |-> Append(extents, [start_page |-> start_page,
                                           nr_pages |-> nr_pages,
                                           start_block |-> start_block])]

\* What one iteration of the loop decides for the stride at probe
\* (lines 189-213): "bad_bmap" when first_block or a sub-block is a hole,
\* "reprobe" when first_block is misaligned or a sub-block is not
\* physically contiguous, "add" for a page-sized, page-aligned run.
ProbeOutcome_NoSubBlockHoleCheck(probe) ==
    IF bmap(probe) = 0 THEN "bad_bmap"
    ELSE IF bmap(probe) % blocks_per_page # 0 THEN "reprobe"
    ELSE IF FirstMismatch(probe) = 0 THEN "add"
    ELSE "reprobe"

\* The iteration without the test of first_block's alignment.
ProbeOutcome_NoAlignCheck(probe) ==
    IF bmap(probe) = 0 THEN "bad_bmap"
    ELSE IF FirstMismatch(probe) = 0 THEN "add"
    ELSE IF bmap(probe + FirstMismatch(probe)) = 0 THEN "bad_bmap"
    ELSE "reprobe"

ProbeOutcome(probe) ==
    IF bmap(probe) = 0 THEN "bad_bmap"
    ELSE IF bmap(probe) % blocks_per_page # 0 THEN "reprobe"
    ELSE IF FirstMismatch(probe) = 0 THEN "add"
    ELSE IF bmap(probe + FirstMismatch(probe)) = 0 THEN "bad_bmap"
    ELSE "reprobe"

\* The file blocks whose mapping the iteration at probe has read.
ProbedBy(probe) ==
    IF bmap(probe) = 0 \/ bmap(probe) % blocks_per_page # 0 THEN {probe}
    ELSE IF FirstMismatch(probe) = 0 THEN probe .. (probe + blocks_per_page - 1)
    ELSE probe .. (probe + FirstMismatch(probe))

\* first_block == 0, or a sub-block == 0: goto bad_bmap, ret = -EINVAL.
activate_bad_bmap ==
    /\ LoopCond
    /\ ProbeOutcome(act.probe_block) = "bad_bmap"
    /\ act' = [act EXCEPT !.pc = "return", !.ret = -EINVAL,
                  !.probed = @ \cup ProbedBy(act.probe_block)]
    /\ UNCHANGED <<inode, sis, sis0, ioVars>>

\* The reprobe without probe_block++.
activate_reprobe_NoAdvance ==
    /\ LoopCond
    /\ ProbeOutcome(act.probe_block) = "reprobe"
    /\ act' = [act EXCEPT !.probed = @ \cup ProbedBy(act.probe_block)]
    /\ UNCHANGED <<inode, sis, sis0, ioVars>>

\* first_block misaligned, or a discontiguity: probe_block++; goto reprobe.
activate_reprobe ==
    /\ LoopCond
    /\ ProbeOutcome(act.probe_block) = "reprobe"
    /\ act' = [act EXCEPT !.probe_block = SectorT(@ + 1),
                  !.probed = @ \cup ProbedBy(act.probe_block)]
    /\ UNCHANGED <<inode, sis, sis0, ioVars>>

\* lowest_block that does not exclude the header page.
NewLowest_CountsHeader(first_block) ==
    IF first_block < act.lowest_block
    THEN first_block ELSE act.lowest_block

\* lowest_block / highest_block after a stride at physical page first_block
\* (the header page, slot 0, is excluded).
NewLowest(first_block) ==
    IF act.page_no # 0 /\ first_block < act.lowest_block
    THEN first_block ELSE act.lowest_block

NewHighest(first_block) ==
    IF act.page_no # 0 /\ first_block > act.highest_block
    THEN first_block ELSE act.highest_block

\* The stride becomes slot page_no: update lowest/highest, add_swap_extent,
\* page_no++, probe_block += blocks_per_page.
activate_add_extent ==
    /\ LoopCond
    /\ ProbeOutcome(act.probe_block) = "add"
    /\ LET p == act.probe_block
           first_block == bmap(p) \div blocks_per_page
           r == add_swap_extent(sis.extents, act.page_no, 1, first_block)
       IN  /\ sis' = [sis EXCEPT !.extents = r.extents]
           /\ act' = [act EXCEPT
                  !.lowest_block = NewLowest(first_block),
                  !.highest_block = NewHighest(first_block),
                  !.nr_extents = @ + r.ret,
                  !.page_no = @ + 1,
                  !.recorded = @ + 1,
                  !.slot_probe = Append(@, p),
                  !.probe_block = SectorT(@ + blocks_per_page),
                  !.probed = @ \cup ProbedBy(p)]
    /\ UNCHANGED <<inode, sis0, ioVars>>

\* add_swap_extent could not allocate: ret < 0, goto out.
activate_add_nomem ==
    /\ LoopCond
    /\ ProbeOutcome(act.probe_block) = "add"
    /\ LET p == act.probe_block
           first_block == bmap(p) \div blocks_per_page
       IN  act' = [act EXCEPT
                  !.lowest_block = NewLowest(first_block),
                  !.highest_block = NewHighest(first_block),
                  !.pc = "return", !.ret = -ENOMEM,
                  !.probed = @ \cup ProbedBy(p)]
    /\ UNCHANGED <<inode, sis, sis0, ioVars>>

\* The loop is over: report nr_extents and the span, fix the slot count
\* (page_no = 1 forces the Empty message); here with sis->max left as it was.
activate_finish_KeepsMax ==
    /\ act.pc = "loop"
    /\ ~LoopCond
    /\ LET page_no == IF act.page_no = 0 THEN 1 ELSE act.page_no
       IN  /\ act' = [act EXCEPT !.pc = "return", !.ret = act.nr_extents,
                         !.span = SectorT(1 + act.highest_block - act.lowest_block
                                          + SectorMod),
                         !.page_no = page_no]
           /\ sis' = [sis EXCEPT !.pages = page_no - 1,
                         !.highest_bit = page_no - 1]
    /\ UNCHANGED <<inode, sis0, ioVars>>

\* The loop is over: report nr_extents and the span, fix the slot count
\* (page_no = 1 forces the Empty message).
activate_finish ==
    /\ act.pc = "loop"
    /\ ~LoopCond
    /\ LET page_no == IF act.page_no = 0 THEN 1 ELSE act.page_no
       IN  /\ act' = [act EXCEPT !.pc = "return", !.ret = act.nr_extents,
                         !.span = SectorT(1 + act.highest_block - act.lowest_block
                                          + SectorMod),
                         !.page_no = page_no]
           /\ sis' = [sis EXCEPT !.max = page_no, !.pages = page_no - 1,
                         !.highest_bit = page_no - 1]
    /\ UNCHANGED <<inode, sis0, ioVars>>

\* swapon's failure path (mm/swapfile.c, bad_swap): an activation that
\* returned an error has its extents destroyed by the caller.
swapon_bad_swap ==
    /\ act.pc = "return"
    /\ act.ret < 0
    /\ sis' = [sis EXCEPT !.extents = <<>>]
    /\ act' = [act EXCEPT !.pc = "failed"]
    /\ UNCHANGED <<inode, sis0, ioVars>>

\* Block layouts: every file block maps to a physical block or to a hole
\* (0), and no physical block backs two file blocks.
Layouts(n) ==
    {f \in [0 .. (n - 1) -> 0 .. MaxPhysBlock] :
        \A a, b \in 0 .. (n - 1) : (a # b /\ f[a] # 0) => f[a] # f[b]}

\* ================================================================ swap I/O
\* Execution contexts of the memory manager that call write and read.
Ctx == {"c1", "c2"}

NULL == "NULL"

\* Page contents: 0 is the content of a fresh, never filled page or block.
Data == 1 .. MaxData

\* Slots a page may be assigned (slot 0 is the header page).
Offsets == 1 .. MaxOffset

\* Page-sized blocks of the device.
DevBlocks == 0 .. (MaxStartBlock + MaxOffset)

\* x << (PAGE_SHIFT - 9)
PageToSector(x) == SectorT(x * (2 ^ PageSectorShift))

DevSectors == {PageToSector(b) : b \in DevBlocks}

\* ----------------------------------------------- page-cache capability
unlock_page(p) == [p EXCEPT !.locked = FALSE, !.holder = NULL]

\* lock_page / a successful trylock_page by context c.
lock_page(p, c) == [p EXCEPT !.locked = TRUE, !.holder = c]

set_page_writeback(p) == [p EXCEPT !.writeback = TRUE]

end_page_writeback(p) == [p EXCEPT !.writeback = FALSE]

set_page_dirty(p) == [p EXCEPT !.dirty = TRUE]

ClearPageReclaim(p) == [p EXCEPT !.reclaim = FALSE]

SetPageError(p) == [p EXCEPT !.error = TRUE]

SetPageUptodate(p) == [p EXCEPT !.uptodate = TRUE]

ClearPageUptodate(p) == [p EXCEPT !.uptodate = FALSE]

\* ------------------------------------------------------- slot locator
\* __page_file_index(page): the slot offset of the page's swap entry.
page_file_index(p) == p.private

\* swap_page_sector(page): the slot offset scaled to sectors.
swap_page_sector(p) == PageToSector(page_file_index(p))

\* map_swap_page (mm/swapfile.c): the device page-block of the page's slot,
\* looked up in the store's extents.
map_swap_page(p) ==
    LET off == p.private
        se == CHOOSE i \in 1 .. Len(sis.extents) :
                 /\ sis.extents[i].start_page <= off
                 /\ off < sis.extents[i].start_page + sis.extents[i].nr_pages
    IN  SectorT(sis.extents[se].start_block + (off - sis.extents[se].start_page))

\* get_swap_bio: a request for the page at the sector of its slot:
\* bi_sector = map_swap_page(page) << (PAGE_SHIFT - 9).  (The failed
\* allocation, bio == NULL, is the callers' nomem branch.)
get_swap_bio(p, op, private) ==
    [state |-> "inflight", op |-> op,
     bi_sector |-> PageToSector(map_swap_page(p)),
     bi_private |-> private, waiter |-> NULL, refs |-> 1, status |-> 0]

\* No request.
FreeBio ==
    [state |-> "free", op |-> "none", bi_sector |-> 0,
     bi_private |-> NULL, waiter |-> NULL, refs |-> 0, status |-> 0]

\* A request is released once its last reference is dropped and its
\* completion handler has finished.
Released(b) == IF b.refs = 0 /\ b.state = "h_done" THEN FreeBio ELSE b

\* A context between calls.
IdleCtx ==
    [pc |-> "idle", fn |-> "none", sync |-> FALSE, ret |-> 0,
     branch |-> "none", task |-> "RUNNING", usage |-> 0,
     wbset |-> 0, wbend |-> 0, psi |-> FALSE, stalls |-> 0]

\* The conditions of swap_slot_free_notify without the SWP_BLKDEV test.
NotifyApplies_NoBlkdevCheck(p) ==
    /\ p.swapcache
    /\ sis.notify
    /\ sis.swap_count = 1

\* swap_slot_free_notify(page): the page and the statistics after it.
NotifyApplies(p) ==
    /\ p.swapcache
    /\ "SWP_BLKDEV" \in sis.flags
    /\ sis.notify
    /\ sis.swap_count = 1

swap_slot_free_notify_page(p) ==
    IF NotifyApplies(p) THEN [p EXCEPT !.dirty = TRUE] ELSE p

swap_slot_free_notify_stat(p, st) ==
    IF NotifyApplies(p) THEN [st EXCEPT !.notified = @ + 1] ELSE st

\* The device drops the slot's content when notified.
swap_slot_free_notify_dev(p, dev) ==
    IF NotifyApplies(p)
    THEN [dev EXCEPT ![PageToSector(p.private)] = 0] ELSE dev

\* ------------------------------------------------------------ write path
\* try_to_free_swap(page) (mm/swapfile.c): the slot can be dropped when
\* nothing but the swap cache refers to it and the page is not being
\* written.
try_to_free_swap(p) == p.swapcache /\ ~p.writeback /\ sis.swap_count = 0

\* The reclaimer (pageout, mm/vmscan.c) picks a dirty swap-cache page, locks
\* it, clears its dirty flag for I/O, marks it for reclaim and calls
\* swap_writepage.
call_swap_writepage(c) ==
    /\ ctx[c].pc = "idle"
    /\ bio[c].state = "free"
    /\ stat.calls < MaxCalls
    /\ ~page.locked
    /\ page.swapcache
    /\ page.dirty
    /\ page' = [lock_page(page, c) EXCEPT !.dirty = FALSE, !.reclaim = TRUE]
    /\ ctx' = [ctx EXCEPT ![c] = [IdleCtx EXCEPT !.pc = "swap_writepage",
                                     !.fn = "swap_writepage",
                                     !.task = ctx[c].task,
                                     !.usage = ctx[c].usage]]
    /\ stat' = [stat EXCEPT !.calls = @ + 1]
    /\ ghost' = [ghost EXCEPT !.reentered = @ \/ page.writeback]
    /\ UNCHANGED <<store, bio, sis, actVars>>

\* if (try_to_free_swap(page)) { unlock_page(page); goto out; }
swap_writepage_free(c) ==
    /\ ctx[c].pc = "swap_writepage"
    /\ try_to_free_swap(page)
    /\ page' = unlock_page([page EXCEPT !.swapcache = FALSE, !.dirty = TRUE])
    /\ ctx' = [ctx EXCEPT ![c].pc = "return", ![c].ret = 0, ![c].branch = "free"]
    /\ UNCHANGED <<store, bio, stat, ghost, sis, actVars>>

\* frontswap_store(page) == 0: set_page_writeback; unlock_page.
swap_writepage_frontswap(c) ==
    /\ ctx[c].pc = "swap_writepage"
    /\ ~try_to_free_swap(page)
    /\ store' = [store EXCEPT !.fsw = page.data]
    /\ page' = unlock_page(set_page_writeback(page))
    /\ ctx' = [ctx EXCEPT ![c].pc = "wp_frontswap_end", ![c].wbset = @ + 1]
    /\ stat' = [stat EXCEPT !.wbsets = @ + 1]
    /\ ghost' = [ghost EXCEPT !.slotval = page.data]
    /\ UNCHANGED <<bio, sis, actVars>>

\* ... end_page_writeback(page); goto out.
swap_writepage_frontswap_end(c) ==
    /\ ctx[c].pc = "wp_frontswap_end"
    /\ page' = end_page_writeback(page)
    /\ ctx' = [ctx EXCEPT ![c].pc = "return", ![c].ret = 0,
                          ![c].branch = "frontswap", ![c].wbend = @ + 1]
    /\ stat' = [stat EXCEPT !.wbends = @ + 1]
    /\ UNCHANGED <<store, bio, ghost, sis, actVars>>

\* frontswap_store(page) != 0 (a stale copy of the slot is invalidated):
\* ret = __swap_writepage(page, wbc, end_swap_bio_write).
swap_writepage_declined(c) ==
    /\ ctx[c].pc = "swap_writepage"
    /\ ~try_to_free_swap(page)
    /\ store' = [store EXCEPT !.fsw = 0]
    /\ ctx' = [ctx EXCEPT ![c].pc = "__swap_writepage"]
    /\ UNCHANGED <<page, bio, stat, ghost, sis, actVars>>

\* SWP_FS: set_page_writeback; unlock_page; then direct_IO.
swap_writepage_fs(c) ==
    /\ ctx[c].pc = "__swap_writepage"
    /\ "SWP_FS" \in sis.flags
    /\ page' = unlock_page(set_page_writeback(page))
    /\ ctx' = [ctx EXCEPT ![c].pc = "wp_direct_IO", ![c].wbset = @ + 1]
    /\ stat' = [stat EXCEPT !.wbsets = @ + 1]
    /\ UNCHANGED <<store, bio, ghost, sis, actVars>>

\* ret = direct_IO(&kiocb, &from) == PAGE_SIZE: the file holds the page.
\* (The page was unlocked before direct_IO, so each later statement of the
\* call is a step of its own.)
swap_writepage_fs_ok(c) ==
    /\ ctx[c].pc = "wp_direct_IO"
    /\ store' = [store EXCEPT !.file = page.data]
    /\ ctx' = [ctx EXCEPT ![c].pc = "wp_fs_count", ![c].branch = "fs_ok"]
    /\ ghost' = [ghost EXCEPT !.slotval = page.data]
    /\ UNCHANGED <<page, bio, stat, sis, actVars>>

\* count_vm_event(PSWPOUT); ret = 0.
swap_writepage_fs_count(c) ==
    /\ ctx[c].pc = "wp_fs_count"
    /\ ctx' = [ctx EXCEPT ![c].pc = "wp_fs_end", ![c].ret = 0]
    /\ stat' = [stat EXCEPT !.pswpout = @ + 1]
    /\ UNCHANGED <<page, store, bio, ghost, sis, actVars>>

\* The end of the filesystem branch without end_page_writeback.
swap_writepage_fs_end_NoEndWriteback(c) ==
    /\ ctx[c].pc = "wp_fs_end"
    /\ ctx' = [ctx EXCEPT ![c].pc = "return"]
    /\ UNCHANGED <<page, store, bio, stat, ghost, sis, actVars>>

\* end_page_writeback(page); return ret (after a whole-page direct write
\* and after a short or failed one).
swap_writepage_fs_end(c) ==
    /\ ctx[c].pc = "wp_fs_end"
    /\ page' = end_page_writeback(page)
    /\ ctx' = [ctx EXCEPT ![c].pc = "return", ![c].wbend = @ + 1]
    /\ stat' = [stat EXCEPT !.wbends = @ + 1]
    /\ UNCHANGED <<store, bio, ghost, sis, actVars>>

\* What direct_IO can return other than PAGE_SIZE: an error, nothing
\* written, or a short count.
DirectIOShort == {-EIO, -ENOMEM, 0, PAGE_SIZE \div 2}

\* ret = direct_IO(...) != PAGE_SIZE (an error, 0 or a short count):
\* set_page_dirty.  ret keeps the value direct_IO returned, 0 and positive
\* counts included.  (The page was unlocked before direct_IO: each later
\* statement of the branch is a step of its own.)
swap_writepage_fs_short(c, r) ==
    /\ ctx[c].pc = "wp_direct_IO"
    /\ page' = set_page_dirty(page)
    /\ ctx' = [ctx EXCEPT ![c].pc = "wp_fs_clear_reclaim", ![c].ret = r,
                          ![c].branch = "fs_short"]
    /\ UNCHANGED <<store, bio, stat, ghost, sis, actVars>>

\* ClearPageReclaim(page) (and the rate-limited message).
swap_writepage_fs_clear_reclaim(c) ==
    /\ ctx[c].pc = "wp_fs_clear_reclaim"
    /\ page' = ClearPageReclaim(page)
    /\ ctx' = [ctx EXCEPT ![c].pc = "wp_fs_end"]
    /\ UNCHANGED <<store, bio, stat, ghost, sis, actVars>>

\* bdev_write_page (fs/block_dev.c) that failed: it has set and ended
\* writeback and left the page locked.
bdev_write_page_failed(p) == end_page_writeback(set_page_writeback(p))

\* bdev_write_page that succeeded: the driver has written the page, ended
\* writeback (page_endio) and the page is unlocked.
bdev_write_page_done(p) == unlock_page(end_page_writeback(set_page_writeback(p)))

\* ret = bdev_write_page(sis->bdev, swap_page_sector(page), page, wbc) == 0:
\* the page is written and unlocked when bdev_write_page returns; the call
\* has still to count it.
swap_writepage_fast(c) ==
    /\ ctx[c].pc = "__swap_writepage"
    /\ "SWP_FS" \notin sis.flags
    /\ store' = [store EXCEPT !.dev[swap_page_sector(page)] = page.data]
    /\ page' = bdev_write_page_done(page)
    /\ ctx' = [ctx EXCEPT ![c].pc = "wp_fast_count", ![c].branch = "fast"]
    /\ ghost' = [ghost EXCEPT !.slotval = page.data]
    /\ UNCHANGED <<bio, stat, sis, actVars>>

\* count_swpout_vm_event(page); return 0.
swap_writepage_fast_count(c) ==
    /\ ctx[c].pc = "wp_fast_count"
    /\ ctx' = [ctx EXCEPT ![c].pc = "return", ![c].ret = 0]
    /\ stat' = [stat EXCEPT !.pswpout = @ + 1]
    /\ UNCHANGED <<page, store, bio, ghost, sis, actVars>>

\* The allocation-failure branch without its unlock_page.
swap_writepage_nomem_NoUnlock(c) ==
    /\ ctx[c].pc = "__swap_writepage"
    /\ "SWP_FS" \notin sis.flags
    /\ page' = set_page_dirty(bdev_write_page_failed(page))
    /\ ctx' = [ctx EXCEPT ![c].pc = "return", ![c].ret = -ENOMEM,
                          ![c].branch = "nomem"]
    /\ UNCHANGED <<store, bio, stat, ghost, sis, actVars>>

\* bio == NULL: set_page_dirty; unlock_page; ret = -ENOMEM.
swap_writepage_nomem(c) ==
    /\ ctx[c].pc = "__swap_writepage"
    /\ "SWP_FS" \notin sis.flags
    /\ page' = unlock_page(set_page_dirty(bdev_write_page_failed(page)))
    /\ ctx' = [ctx EXCEPT ![c].pc = "return", ![c].ret = -ENOMEM,
                          ![c].branch = "nomem"]
    /\ UNCHANGED <<store, bio, stat, ghost, sis, actVars>>

\* The generic branch with the page left locked across submit_bio.
swap_writepage_submit_NoUnlock(c) ==
    /\ ctx[c].pc = "__swap_writepage"
    /\ "SWP_FS" \notin sis.flags
    /\ \E status \in {0, 1} :
         bio' = [bio EXCEPT ![c] =
                   [get_swap_bio(page, "write", NULL) EXCEPT !.state = "built",
                                                              !.status = status]]
    /\ page' = set_page_writeback(bdev_write_page_failed(page))
    /\ ctx' = [ctx EXCEPT ![c].pc = "wp_submit_bio", ![c].wbset = @ + 1]
    /\ stat' = [stat EXCEPT !.pswpout = @ + 1, !.wbsets = @ + 1]
    /\ UNCHANGED <<store, ghost, sis, actVars>>

\* The generic branch, up to and including unlock_page: the request is
\* built (bio != NULL); count_swpout_vm_event; set_page_writeback;
\* unlock_page.  The request is not yet submitted, and the page is open to
\* other contexts from here on.  (status is the bi_status the device will
\* report for the request.)
swap_writepage_submit(c) ==
    /\ ctx[c].pc = "__swap_writepage"
    /\ "SWP_FS" \notin sis.flags
    /\ \E status \in {0, 1} :
         bio' = [bio EXCEPT ![c] =
                   [get_swap_bio(page, "write", NULL) EXCEPT !.state = "built",
                                                              !.status = status]]
    /\ page' = unlock_page(set_page_writeback(bdev_write_page_failed(page)))
    /\ ctx' = [ctx EXCEPT ![c].pc = "wp_submit_bio", ![c].wbset = @ + 1]
    /\ stat' = [stat EXCEPT !.pswpout = @ + 1, !.wbsets = @ + 1]
    /\ UNCHANGED <<store, ghost, sis, actVars>>

\* submit_bio(bio); out: return ret (0).
swap_writepage_submit_bio(c) ==
    /\ ctx[c].pc = "wp_submit_bio"
    /\ bio[c].state = "built"
    /\ bio' = [bio EXCEPT ![c].state = "inflight"]
    /\ ctx' = [ctx EXCEPT ![c].pc = "return", ![c].ret = 0,
                          ![c].branch = "generic"]
    /\ UNCHANGED <<page, store, stat, ghost, sis, actVars>>

\* The write request completes without error: the device holds the page;
\* end_swap_bio_write is entered with bi_status == 0 and goes straight to
\* end_page_writeback.  (The handler runs without the page lock: each of
\* its statements is a step of its own.)
end_swap_bio_write_ok(b) ==
    /\ bio[b].state = "inflight"
    /\ bio[b].op = "write"
    /\ bio[b].status = 0
    /\ store' = [store EXCEPT !.dev[bio[b].bi_sector] = page.data]
    /\ bio' = [bio EXCEPT ![b].state = "w_end"]
    /\ ghost' = [ghost EXCEPT !.slotval = page.data]
    /\ UNCHANGED <<page, ctx, stat, sis, actVars>>

\* end_swap_bio_write, bi_status != 0: SetPageError(page).
end_swap_bio_write_err(b) ==
    /\ bio[b].state = "inflight"
    /\ bio[b].op = "write"
    /\ bio[b].status # 0
    /\ page' = SetPageError(page)
    /\ bio' = [bio EXCEPT ![b].state = "w_redirty"]
    /\ UNCHANGED <<store, ctx, stat, ghost, sis, actVars>>

\* The failed write completion without set_page_dirty.
end_swap_bio_write_redirty_NoRedirty(b) ==
    /\ bio[b].state = "w_redirty"
    /\ bio' = [bio EXCEPT ![b].state = "w_clear_reclaim"]
    /\ UNCHANGED <<page, store, ctx, stat, ghost, sis, actVars>>

\* set_page_dirty(page) (and the alert).
end_swap_bio_write_redirty(b) ==
    /\ bio[b].state = "w_redirty"
    /\ page' = set_page_dirty(page)
    /\ bio' = [bio EXCEPT ![b].state = "w_clear_reclaim"]
    /\ UNCHANGED <<store, ctx, stat, ghost, sis, actVars>>

\* ClearPageReclaim(page).
end_swap_bio_write_clear_reclaim(b) ==
    /\ bio[b].state = "w_clear_reclaim"
    /\ page' = ClearPageReclaim(page)
    /\ bio' = [bio EXCEPT ![b].state = "w_end"]
    /\ UNCHANGED <<store, ctx, stat, ghost, sis, actVars>>

\* The write completion without end_page_writeback.
end_swap_bio_write_end_NoEndWriteback(b) ==
    /\ bio[b].state = "w_end"
    /\ bio' = [bio EXCEPT ![b].state = "w_put"]
    /\ stat' = [stat EXCEPT !.wbends = @ + 1]
    /\ UNCHANGED <<page, store, ctx, ghost, sis, actVars>>

\* end_page_writeback(page) (whether the request failed or not).
end_swap_bio_write_end(b) ==
    /\ bio[b].state = "w_end"
    /\ page' = end_page_writeback(page)
    /\ bio' = [bio EXCEPT ![b].state = "w_put"]
    /\ stat' = [stat EXCEPT !.wbends = @ + 1]
    /\ UNCHANGED <<store, ctx, ghost, sis, actVars>>

\* bio_put(bio): the request is released.
end_swap_bio_write_put(b) ==
    /\ bio[b].state = "w_put"
    /\ bio' = [bio EXCEPT ![b] = FreeBio]
    /\ UNCHANGED <<page, store, ctx, stat, ghost, sis, actVars>>

\* The call has returned to its caller.
call_return(c) ==
    /\ ctx[c].pc = "return"
    /\ ctx' = [ctx EXCEPT ![c] = [IdleCtx EXCEPT !.task = ctx[c].task,
                                                  !.usage = ctx[c].usage]]
    /\ UNCHANGED <<page, store, bio, stat, ghost, sis, actVars>>

\* ------------------------------------------------------------- read path
\* A fault or read-ahead (mm/swap_state.c) locks a swap-cache page that is
\* not uptodate and calls swap_readpage(page, synchronous).
call_swap_readpage(c, synchronous) ==
    /\ ctx[c].pc = "idle"
    /\ bio[c].state = "free"
    /\ stat.calls < MaxCalls
    /\ ~page.locked
    /\ ~page.uptodate
    /\ page.swapcache \/ synchronous
    /\ page' = lock_page(page, c)
    /\ ctx' = [ctx EXCEPT ![c] = [IdleCtx EXCEPT !.pc = "swap_readpage",
                                     !.fn = "swap_readpage",
                                     !.sync = synchronous,
                                     !.task = ctx[c].task,
                                     !.usage = ctx[c].usage]]
    /\ stat' = [stat EXCEPT !.calls = @ + 1]
    /\ UNCHANGED <<store, bio, ghost, sis, actVars>>

\* ... or calls swap_readpage_async(page), whose synchronous is false.
call_swap_readpage_async(c) ==
    /\ ctx[c].pc = "idle"
    /\ bio[c].state = "free"
    /\ stat.calls < MaxCalls
    /\ ~page.locked
    /\ ~page.uptodate
    /\ page.swapcache
    /\ page' = lock_page(page, c)
    /\ ctx' = [ctx EXCEPT ![c] = [IdleCtx EXCEPT !.pc = "swap_readpage",
                                     !.fn = "swap_readpage_async",
                                     !.task = ctx[c].task,
                                     !.usage = ctx[c].usage]]
    /\ stat' = [stat EXCEPT !.calls = @ + 1]
    /\ UNCHANGED <<store, bio, ghost, sis, actVars>>

\* The front-end cache hit with SetPageUptodate and unlock_page done by the
\* call.
swap_readpage_frontswap_Unlocks(c) ==
    /\ ctx[c].pc = "swap_readpage"
    /\ store.fsw # 0
    /\ page' = unlock_page(SetPageUptodate([page EXCEPT !.data = store.fsw]))
    /\ ctx' = [ctx EXCEPT ![c].pc = "return", ![c].ret = 0,
                          ![c].branch = "frontswap"]
    /\ UNCHANGED <<store, bio, stat, ghost, sis, actVars>>

\* frontswap_load(page) == 0 (the slot is in the front-end cache): return 0;
\* SetPageUptodate and unlock_page are left to the cache's transfer.
swap_readpage_frontswap(c) ==
    /\ ctx[c].pc = "swap_readpage"
    /\ store.fsw # 0
    /\ store' = [store EXCEPT !.fsw_pending = TRUE]
    /\ ctx' = [ctx EXCEPT ![c].pc = "return", ![c].ret = 0,
                          ![c].branch = "frontswap"]
    /\ UNCHANGED <<page, bio, stat, ghost, sis, actVars>>

\* The front-end cache's transfer arrives: it fills the page, marks it
\* uptodate and unlocks it.
frontswap_load_done ==
    /\ store.fsw_pending
    /\ page' = unlock_page(SetPageUptodate([page EXCEPT !.data = store.fsw]))
    /\ store' = [store EXCEPT !.fsw_pending = FALSE]
    /\ UNCHANGED <<bio, ctx, stat, ghost, sis, actVars>>

\* A value readpage can return besides 0 and a negative errno
\* (AOP_TRUNCATED_PAGE, include/linux/fs.h).
AOP_TRUNCATED_PAGE == 524289

\* What readpage can return other than 0.
ReadpageFailed == {-EIO, -ENOMEM, AOP_TRUNCATED_PAGE}

\* psi_memstall_enter; SWP_FS: ret = readpage(swap_file, page) == 0 (the
\* filesystem has filled the page, marked it uptodate and unlocked it when
\* readpage returns); the call has still to count the read.
swap_readpage_fs_ok(c) ==
    /\ ctx[c].pc = "swap_readpage"
    /\ store.fsw = 0
    /\ "SWP_FS" \in sis.flags
    /\ page' = unlock_page(SetPageUptodate([page EXCEPT !.data = store.file]))
    /\ ctx' = [ctx EXCEPT ![c].pc = "rd_count", ![c].ret = 0,
                          ![c].branch = "fs_ok", ![c].psi = TRUE,
                          ![c].stalls = @ + 1]
    /\ UNCHANGED <<store, bio, stat, ghost, sis, actVars>>

\* psi_memstall_enter; SWP_FS: ret = readpage(swap_file, page) != 0 (the
\* filesystem has unlocked the page): goto out with the value readpage
\* returned.
swap_readpage_fs_err(c, r) ==
    /\ ctx[c].pc = "swap_readpage"
    /\ store.fsw = 0
    /\ "SWP_FS" \in sis.flags
    /\ page' = unlock_page(page)
    /\ ctx' = [ctx EXCEPT ![c].pc = "rd_out", ![c].ret = r,
                          ![c].branch = "fs_err", ![c].psi = TRUE,
                          ![c].stalls = @ + 1]
    /\ UNCHANGED <<store, bio, stat, ghost, sis, actVars>>

\* bdev_read_page (fs/block_dev.c) that succeeded: the driver has filled
\* the page, marked it uptodate and unlocked it (page_endio).
bdev_read_page_done(p, d) == unlock_page(SetPageUptodate([p EXCEPT !.data = d]))

\* psi_memstall_enter; ret = bdev_read_page(sis->bdev,
\* swap_page_sector(page), page) == 0.
swap_readpage_fast(c) ==
    /\ ctx[c].pc = "swap_readpage"
    /\ store.fsw = 0
    /\ "SWP_FS" \notin sis.flags
    /\ page' = bdev_read_page_done(page, store.dev[swap_page_sector(page)])
    /\ ctx' = [ctx EXCEPT ![c].pc = "rd_trylock", ![c].ret = 0,
                          ![c].branch = "fast", ![c].psi = TRUE,
                          ![c].stalls = @ + 1]
    /\ UNCHANGED <<store, bio, stat, ghost, sis, actVars>>

\* if (trylock_page(page)) { swap_slot_free_notify(page); unlock_page(page); }
\* The call has still to count the read.
swap_readpage_fast_trylock(c) ==
    /\ ctx[c].pc = "rd_trylock"
    /\ IF ~page.locked
       THEN /\ page' = unlock_page(swap_slot_free_notify_page(lock_page(page, c)))
            /\ store' = [store EXCEPT !.dev = swap_slot_free_notify_dev(page, @)]
            /\ stat' = swap_slot_free_notify_stat(page, stat)
       ELSE UNCHANGED <<page, store, stat>>
    /\ ctx' = [ctx EXCEPT ![c].pc = "rd_count"]
    /\ UNCHANGED <<bio, ghost, sis, actVars>>

\* count_vm_event(PSWPIN); goto out.  (After readpage or bdev_read_page
\* returned 0.)
swap_readpage_count(c) ==
    /\ ctx[c].pc = "rd_count"
    /\ ctx' = [ctx EXCEPT ![c].pc = "rd_out"]
    /\ stat' = [stat EXCEPT !.pswpin = @ + 1]
    /\ UNCHANGED <<page, store, bio, ghost, sis, actVars>>

\* out: psi_memstall_leave(&pflags); return ret.
swap_readpage_out(c) ==
    /\ ctx[c].pc = "rd_out"
    /\ ctx' = [ctx EXCEPT ![c].pc = "return", ![c].psi = FALSE]
    /\ UNCHANGED <<page, store, bio, stat, ghost, sis, actVars>>

\* The read allocation-failure branch without its unlock_page.
swap_readpage_nomem_NoUnlock(c) ==
    /\ ctx[c].pc = "swap_readpage"
    /\ store.fsw = 0
    /\ "SWP_FS" \notin sis.flags
    /\ ctx' = [ctx EXCEPT ![c].pc = "rd_out", ![c].ret = -ENOMEM,
                          ![c].branch = "nomem", ![c].psi = TRUE,
                          ![c].stalls = @ + 1]
    /\ UNCHANGED <<page, store, bio, stat, ghost, sis, actVars>>

\* psi_memstall_enter; bdev_read_page failed; bio == NULL: unlock_page;
\* ret = -ENOMEM; goto out.
swap_readpage_nomem(c) ==
    /\ ctx[c].pc = "swap_readpage"
    /\ store.fsw = 0
    /\ "SWP_FS" \notin sis.flags
    /\ page' = unlock_page(page)
    /\ ctx' = [ctx EXCEPT ![c].pc = "rd_out", ![c].ret = -ENOMEM,
                          ![c].branch = "nomem", ![c].psi = TRUE,
                          ![c].stalls = @ + 1]
    /\ UNCHANGED <<store, bio, stat, ghost, sis, actVars>>

\* The generic read branch unlocking the page when it submits, as the
\* write path does.
swap_readpage_submit_Unlocks(c) ==
    /\ ctx[c].pc = "swap_readpage"
    /\ store.fsw = 0
    /\ "SWP_FS" \notin sis.flags
    /\ \E status \in {0, 1} :
         bio' = [bio EXCEPT ![c] =
                   [get_swap_bio(page, "read", IF ctx[c].sync THEN c ELSE NULL)
                      EXCEPT !.refs = 2, !.status = status]]
    /\ page' = unlock_page(page)
    /\ ctx' = [ctx EXCEPT ![c].pc = IF ctx[c].sync THEN "rd_set_state" ELSE "rd_put",
                          ![c].usage = IF ctx[c].sync THEN @ + 1 ELSE @,
                          ![c].psi = TRUE, ![c].stalls = @ + 1]
    /\ stat' = [stat EXCEPT !.pswpin = @ + 1]
    /\ UNCHANGED <<store, ghost, sis, actVars>>

\* The generic read branch without bio_get.
swap_readpage_submit_NoBioGet(c) ==
    /\ ctx[c].pc = "swap_readpage"
    /\ store.fsw = 0
    /\ "SWP_FS" \notin sis.flags
    /\ \E status \in {0, 1} :
         bio' = [bio EXCEPT ![c] =
                   [get_swap_bio(page, "read", IF ctx[c].sync THEN c ELSE NULL)
                      EXCEPT !.status = status]]
    /\ ctx' = [ctx EXCEPT ![c].pc = IF ctx[c].sync THEN "rd_set_state" ELSE "rd_put",
                          ![c].usage = IF ctx[c].sync THEN @ + 1 ELSE @,
                          ![c].psi = TRUE, ![c].stalls = @ + 1]
    /\ stat' = [stat EXCEPT !.pswpin = @ + 1]
    /\ UNCHANGED <<page, store, ghost, sis, actVars>>

\* The generic branch: bi_private = current and get_task_struct when
\* synchronous; count_vm_event(PSWPIN); bio_get; submit_bio.
swap_readpage_submit(c) ==
    /\ ctx[c].pc = "swap_readpage"
    /\ store.fsw = 0
    /\ "SWP_FS" \notin sis.flags
    /\ \E status \in {0, 1} :
         bio' = [bio EXCEPT ![c] =
                   [get_swap_bio(page, "read", IF ctx[c].sync THEN c ELSE NULL)
                      EXCEPT !.refs = 2, !.status = status]]
    /\ ctx' = [ctx EXCEPT ![c].pc = IF ctx[c].sync THEN "rd_set_state" ELSE "rd_put",
                          ![c].usage = IF ctx[c].sync THEN @ + 1 ELSE @,
                          ![c].psi = TRUE, ![c].stalls = @ + 1]
    /\ stat' = [stat EXCEPT !.pswpin = @ + 1]
    /\ UNCHANGED <<page, store, ghost, sis, actVars>>

\* while (synchronous) { set_current_state(TASK_UNINTERRUPTIBLE);
rd_set_state(c) ==
    /\ ctx[c].pc = "rd_set_state"
    /\ ctx' = [ctx EXCEPT ![c].pc = "rd_check", ![c].task = "UNINTERRUPTIBLE"]
    /\ UNCHANGED <<page, store, bio, stat, ghost, sis, actVars>>

\* The loop check without the wait: the loop is left at once.
rd_check_NoWait(c) ==
    /\ ctx[c].pc = "rd_check"
    /\ ctx' = [ctx EXCEPT ![c].pc = "rd_put"]
    /\ UNCHANGED <<page, store, bio, stat, ghost, sis, actVars>>

\* if (!READ_ONCE(bio->bi_private)) break;
rd_check(c) ==
    /\ ctx[c].pc = "rd_check"
    /\ ctx' = [ctx EXCEPT ![c].pc = IF bio[c].bi_private = NULL
                                    THEN "rd_put" ELSE "rd_poll"]
    /\ UNCHANGED <<page, store, bio, stat, ghost, sis, actVars>>

\* blk_poll(disk->queue, qc, true) found something (it leaves the task
\* running): next iteration.
rd_poll_found(c) ==
    /\ ctx[c].pc = "rd_poll"
    /\ ctx' = [ctx EXCEPT ![c].pc = "rd_set_state", ![c].task = "RUNNING"]
    /\ UNCHANGED <<page, store, bio, stat, ghost, sis, actVars>>

\* blk_poll returned 0: io_schedule().
rd_poll_none(c) ==
    /\ ctx[c].pc = "rd_poll"
    /\ ctx' = [ctx EXCEPT ![c].pc = "rd_io_schedule"]
    /\ UNCHANGED <<page, store, bio, stat, ghost, sis, actVars>>

\* io_schedule() returns once the task is running again (it was woken, or
\* it never went to sleep).
rd_io_schedule(c) ==
    /\ ctx[c].pc = "rd_io_schedule"
    /\ ctx[c].task = "RUNNING"
    /\ ctx' = [ctx EXCEPT ![c].pc = "rd_set_state"]
    /\ UNCHANGED <<page, store, bio, stat, ghost, sis, actVars>>

\* __set_current_state(TASK_RUNNING); bio_put(bio); then out:.
rd_put(c) ==
    /\ ctx[c].pc = "rd_put"
    /\ bio' = [bio EXCEPT ![c] = Released([bio[c] EXCEPT !.refs = @ - 1])]
    /\ ctx' = [ctx EXCEPT ![c].pc = "rd_out", ![c].ret = 0,
                          ![c].branch = "generic", ![c].task = "RUNNING"]
    /\ UNCHANGED <<page, store, stat, ghost, sis, actVars>>

\* end_swap_bio_read, bi_status == 0: SetPageUptodate;
\* swap_slot_free_notify; unlock_page.
end_swap_bio_read_ok(b) ==
    /\ bio[b].state = "inflight"
    /\ bio[b].op = "read"
    /\ bio[b].status = 0
    /\ LET filled == SetPageUptodate([page EXCEPT !.data = store.dev[bio[b].bi_sector]])
       IN  /\ page' = unlock_page(swap_slot_free_notify_page(filled))
           /\ store' = [store EXCEPT !.dev = swap_slot_free_notify_dev(filled, @)]
           /\ stat' = swap_slot_free_notify_stat(filled, stat)
    /\ bio' = [bio EXCEPT ![b].state = "h_clear", ![b].waiter = bio[b].bi_private]
    /\ UNCHANGED <<ctx, ghost, sis, actVars>>

\* end_swap_bio_read, bi_status != 0: SetPageError; ClearPageUptodate;
\* goto out; unlock_page.
end_swap_bio_read_err(b) ==
    /\ bio[b].state = "inflight"
    /\ bio[b].op = "read"
    /\ bio[b].status # 0
    /\ page' = unlock_page(ClearPageUptodate(SetPageError(page)))
    /\ bio' = [bio EXCEPT ![b].state = "h_clear", ![b].waiter = bio[b].bi_private]
    /\ UNCHANGED <<store, ctx, stat, ghost, sis, actVars>>

\* WRITE_ONCE(bio->bi_private, NULL);
end_swap_bio_read_clear(b) ==
    /\ bio[b].state = "h_clear"
    /\ bio' = [bio EXCEPT ![b].state = "h_put", ![b].bi_private = NULL]
    /\ UNCHANGED <<page, store, ctx, stat, ghost, sis, actVars>>

\* bio_put(bio);
end_swap_bio_read_put(b) ==
    /\ bio[b].state = "h_put"
    /\ bio' = [bio EXCEPT ![b].state = "h_wake", ![b].refs = @ - 1]
    /\ UNCHANGED <<page, store, ctx, stat, ghost, sis, actVars>>

\* The end of the handler without blk_wake_io_task.
end_swap_bio_read_wake_NoWake(b) ==
    /\ bio[b].state = "h_wake"
    /\ bio' = [bio EXCEPT ![b] = Released([bio[b] EXCEPT !.state = "h_done"])]
    /\ ctx' = IF bio[b].waiter # NULL
              THEN [ctx EXCEPT ![bio[b].waiter].usage = @ - 1]
              ELSE ctx
    /\ UNCHANGED <<page, store, stat, ghost, sis, actVars>>

\* if (waiter) { blk_wake_io_task(waiter); put_task_struct(waiter); }
end_swap_bio_read_wake(b) ==
    /\ bio[b].state = "h_wake"
    /\ bio' = [bio EXCEPT ![b] = Released([bio[b] EXCEPT !.state = "h_done"])]
    /\ ctx' = IF bio[b].waiter # NULL
              THEN [ctx EXCEPT ![bio[b].waiter].task = "RUNNING",
                               ![bio[b].waiter].usage = @ - 1]
              ELSE ctx
    /\ UNCHANGED <<page, store, stat, ghost, sis, actVars>>

\* -------------------------------------------------------- memory manager
\* Nothing of the I/O path is under way.
Quiescent ==
    /\ \A c \in Ctx : ctx[c].pc = "idle" /\ bio[c].state = "free"
    /\ ~store.fsw_pending
    /\ ~page.locked
    /\ ~page.writeback

\* The page was reclaimed (it is clean: its content is in the slot) or its
\* read failed, and a fresh page is allocated for the same slot.
mm_new_page ==
    /\ Quiescent
    /\ page.swapcache
    /\ ~page.dirty
    /\ page.uptodate \/ page.error
    /\ page' = [page EXCEPT !.uptodate = FALSE, !.error = FALSE,
                            !.reclaim = FALSE, !.data = 0, !.gen = "fresh"]
    /\ UNCHANGED <<store, bio, ctx, stat, ghost, sis, actVars>>

\* swap_set_page_dirty(page): the page is marked dirty, by the
\* filesystem's set_page_dirty on SWP_FS (the page is in the swap cache) and
\* by __set_page_dirty_no_writeback otherwise; whatever the page's lock and
\* writeback state.  (It returns 1 when it dirtied the page, 0 when the
\* page was dirty already.)
swap_set_page_dirty ==
    /\ stat.calls < MaxCalls
    /\ page.swapcache
    /\ page' = set_page_dirty(page)
    /\ stat' = [stat EXCEPT !.calls = @ + 1]
    /\ UNCHANGED <<store, bio, ctx, ghost, sis, actVars>>

\* The owner of the page stores new content in it.
mm_modify_page(d) ==
    /\ page.uptodate
    /\ ~page.locked
    /\ d # page.data
    /\ page' = [page EXCEPT !.data = d, !.dirty = TRUE, !.gen = "orig"]
    /\ UNCHANGED <<store, bio, ctx, stat, ghost, sis, actVars>>

\* A page whose slot was dropped is added to the swap cache again.
mm_add_to_swap ==
    /\ Quiescent
    /\ ~page.swapcache
    /\ page' = [page EXCEPT !.swapcache = TRUE]
    /\ UNCHANGED <<store, bio, ctx, stat, ghost, sis, actVars>>

\* ------------------------------------------------------- specification
\* The reference count of the page's slot (__swap_count), as far as the path
\* looks at it: no reference left, exactly one, more than one.
SwapCounts == {0, 1, 2}

\* The notification support of the store's device and the slot's reference
\* count.  The path compares the count with 0 (try_to_free_swap) and with 1
\* (swap_slot_free_notify, reached only with notification support), so a
\* count above one is told from one only on a device with that support.
\* swap_slot_free_notify returns before it looks at the device's operation
\* unless the store is SWP_BLKDEV, so the other stores keep one value of
\* it: the operation is there.
Flavours(kind) ==
    {f \in [notify : BOOLEAN, swap_count : SwapCounts] :
        /\ f.swap_count = 2 => f.notify /\ kind = {"SWP_BLKDEV"}
        /\ kind # {"SWP_BLKDEV"} => f.notify}

\* The stores of the model: a raw block device (one identity extent), a
\* file reached through its extents (its blocks start at start_block), a
\* file the filesystem reads and writes itself (SWP_FS).
Stores ==
    {[flags |-> {"SWP_BLKDEV"}, max |-> MaxOffset + 1, pages |-> MaxOffset,
      highest_bit |-> MaxOffset,
      extents |-> <<[start_page |-> 0, nr_pages |-> MaxOffset + 1, start_block |-> 0]>>,
      notify |-> f.notify, swap_count |-> f.swap_count] : f \in Flavours({"SWP_BLKDEV"})}
    \cup
    {[flags |-> {}, max |-> MaxOffset + 1, pages |-> MaxOffset,
      highest_bit |-> MaxOffset,
      extents |-> <<[start_page |-> 0, nr_pages |-> MaxOffset + 1, start_block |-> s]>>,
      notify |-> f.notify, swap_count |-> f.swap_count] :
         s \in 1 .. MaxStartBlock, f \in Flavours({})}
    \cup
    {[flags |-> {"SWP_FS"}, max |-> MaxOffset + 1, pages |-> MaxOffset,
      highest_bit |-> MaxOffset,
      extents |-> <<[start_page |-> 0, nr_pages |-> MaxOffset + 1, start_block |-> 0]>>,
      notify |-> f.notify, swap_count |-> f.swap_count] : f \in Flavours({"SWP_FS"})}

\* No I/O state: the state of the I/O variables while a store is activated.
IoIdle ==
    /\ page = [locked |-> FALSE, holder |-> NULL, writeback |-> FALSE,
               uptodate |-> FALSE, error |-> FALSE, dirty |-> FALSE,
               reclaim |-> FALSE, swapcache |-> FALSE, data |-> 0,
               private |-> 0, gen |-> "orig"]
    /\ store = [dev |-> [s \in DevSectors |-> 0], file |-> 0, fsw |-> 0,
                fsw_pending |-> FALSE]
    /\ bio = [c \in Ctx |-> FreeBio]
    /\ ctx = [c \in Ctx |-> IdleCtx]
    /\ stat = [pswpout |-> 0, pswpin |-> 0, notified |-> 0, calls |-> 0,
               wbsets |-> 0, wbends |-> 0]
    /\ ghost = [slotval |-> 0, reentered |-> FALSE]

\* The page the memory manager hands to the path first: a page of the
\* swap cache with content of its own, to be written out, or a fresh page
\* of the swap cache (not uptodate, clean), to be read in from its slot.
InitialPages(off) ==
    {[locked |-> FALSE, holder |-> NULL, writeback |-> FALSE,
      uptodate |-> TRUE, error |-> FALSE, dirty |-> TRUE,
      reclaim |-> FALSE, swapcache |-> TRUE, data |-> 1,
      private |-> off, gen |-> "orig"],
     [locked |-> FALSE, holder |-> NULL, writeback |-> FALSE,
      uptodate |-> FALSE, error |-> FALSE, dirty |-> FALSE,
      reclaim |-> FALSE, swapcache |-> TRUE, data |-> 0,
      private |-> off, gen |-> "fresh"]}

\* An activated store and a page of the swap cache that was assigned one
\* of its slots; nothing has been written to the store in the model's
\* time.  (Page contents are labels: the first content of a page that has
\* content of its own is called 1, what the store holds at the start 0.)
Init ==
    /\ sis \in Stores
    /\ sis0 = sis
    /\ inode = [bmap |-> <<>>, last_block |-> 0, blkshift |-> 0]
    /\ act = [pc |-> "activated", probe_block |-> 0, page_no |-> sis.max,
              lowest_block |-> 0, highest_block |-> 0,
              nr_extents |-> Len(sis.extents), ret |-> Len(sis.extents),
              span |-> 0, probed |-> {}, recorded |-> sis.max,
              slot_probe |-> <<>>]
    /\ \E off \in Offsets : page \in InitialPages(off)
    /\ store = [dev |-> [s \in DevSectors |-> 0], file |-> 0, fsw |-> 0,
                fsw_pending |-> FALSE]
    /\ bio = [c \in Ctx |-> FreeBio]
    /\ ctx = [c \in Ctx |-> IdleCtx]
    /\ stat = [pswpout |-> 0, pswpin |-> 0, notified |-> 0, calls |-> 0,
               wbsets |-> 0, wbends |-> 0]
    /\ ghost = [slotval |-> 0, reentered |-> FALSE]

Next ==
    \/ \E c \in Ctx :
        \/ call_swap_writepage(c)
        \/ swap_writepage_free(c)
        \/ swap_writepage_frontswap(c)
        \/ swap_writepage_frontswap_end(c)
        \/ swap_writepage_declined(c)
        \/ swap_writepage_fs(c)
        \/ swap_writepage_fs_ok(c)
        \/ swap_writepage_fs_count(c)
        \/ swap_writepage_fs_end(c)
        \/ \E r \in DirectIOShort : swap_writepage_fs_short(c, r)
        \/ swap_writepage_fs_clear_reclaim(c)
        \/ swap_writepage_fast(c)
        \/ swap_writepage_fast_count(c)
        \/ swap_writepage_nomem(c)
        \/ swap_writepage_submit(c)
        \/ swap_writepage_submit_bio(c)
        \/ end_swap_bio_write_ok(c)
        \/ end_swap_bio_write_err(c)
        \/ end_swap_bio_write_redirty(c)
        \/ end_swap_bio_write_clear_reclaim(c)
        \/ end_swap_bio_write_end(c)
        \/ end_swap_bio_write_put(c)
        \/ \E synchronous \in BOOLEAN : call_swap_readpage(c, synchronous)
        \/ call_swap_readpage_async(c)
        \/ swap_readpage_frontswap(c)
        \/ swap_readpage_fs_ok(c)
        \/ \E r \in ReadpageFailed : swap_readpage_fs_err(c, r)
        \/ swap_readpage_fast(c)
        \/ swap_readpage_fast_trylock(c)
        \/ swap_readpage_count(c)
        \/ swap_readpage_out(c)
        \/ swap_readpage_nomem(c)
        \/ swap_readpage_submit(c)
        \/ rd_set_state(c)
        \/ rd_check(c)
        \/ rd_poll_found(c)
        \/ rd_poll_none(c)
        \/ rd_io_schedule(c)
        \/ rd_put(c)
        \/ end_swap_bio_read_ok(c)
        \/ end_swap_bio_read_err(c)
        \/ end_swap_bio_read_clear(c)
        \/ end_swap_bio_read_put(c)
        \/ end_swap_bio_read_wake(c)
        \/ call_return(c)
    \/ frontswap_load_done
    \/ swap_set_page_dirty
    \/ mm_new_page
    \/ \E d \in Data : mm_modify_page(d)
    \/ mm_add_to_swap

Spec == Init /\ [][Next]_vars

\* The steps that end a writeback interval of context c: the rest of a call
\* that has set writeback (its submit_bio included), and the completion of
\* its write request.
EndsWriteback(c) ==
    \/ swap_writepage_frontswap_end(c)
    \/ swap_writepage_fs_ok(c)
    \/ swap_writepage_fs_count(c)
    \/ swap_writepage_fs_end(c)
    \/ \E r \in DirectIOShort : swap_writepage_fs_short(c, r)
    \/ swap_writepage_fs_clear_reclaim(c)
    \/ swap_writepage_submit_bio(c)
    \/ end_swap_bio_write_ok(c)
    \/ end_swap_bio_write_err(c)
    \/ end_swap_bio_write_redirty(c)
    \/ end_swap_bio_write_clear_reclaim(c)
    \/ end_swap_bio_write_end(c)

\* A call that has set writeback runs on to its end_page_writeback, and
\* every submitted write request eventually completes.
SpecFair == Spec /\ \A c \in Ctx : WF_vars(EndsWriteback(c))

\* The steps of the blocking-poll loop of context c, and on to its return.
WaiterStep(c) ==
    \/ rd_set_state(c)
    \/ rd_check(c)
    \/ rd_poll_found(c)
    \/ rd_poll_none(c)
    \/ rd_io_schedule(c)
    \/ rd_put(c)
    \/ swap_readpage_out(c)

\* The steps of the read completion handler on the request of context b.
ReadHandlerStep(b) ==
    \/ end_swap_bio_read_ok(b)
    \/ end_swap_bio_read_err(b)
    \/ end_swap_bio_read_clear(b)
    \/ end_swap_bio_read_put(b)
    \/ end_swap_bio_read_wake(b)

\* Every submitted read request eventually completes (its handler runs to
\* its end) and a reader that is not suspended keeps running.
SpecReadFair ==
    Spec /\ \A c \in Ctx : WF_vars(WaiterStep(c)) /\ WF_vars(ReadHandlerStep(c))

\* The store as swapon hands it over: read_swap_header has set the declared
\* slot count (the header page and at least one more) and refuses a file
\* shorter than the slots it declares; no extent exists yet.
InitAct ==
    /\ \E n \in 0 .. MaxFileBlocks, s \in 0 .. MaxBlkShift :
         \E f \in Layouts(n) :
            inode = [bmap |-> f, last_block |-> n, blkshift |-> s]
    /\ \E m \in 2 .. MaxSlots :
         sis = [flags |-> {}, max |-> m, pages |-> m - 1, highest_bit |-> m - 1,
                extents |-> <<>>, notify |-> FALSE, swap_count |-> 0]
    /\ sis.max * blocks_per_page <= inode.last_block
    /\ sis0 = sis
    /\ act = [pc |-> "loop", probe_block |-> 0, page_no |-> 0,
              lowest_block |-> SectorT(-1 + SectorMod), highest_block |-> 0,
              nr_extents |-> 0, ret |-> 0, span |-> 0, probed |-> {},
              recorded |-> 0, slot_probe |-> <<>>]
    /\ IoIdle

NextAct ==
    \/ activate_bad_bmap
    \/ activate_reprobe
    \/ activate_add_extent
    \/ activate_add_nomem
    \/ activate_finish
    \/ swapon_bad_swap


SpecAct == InitAct /\ [][NextAct]_vars

\* The scan is sequential code that keeps running.
SpecActFair == SpecAct /\ WF_vars(NextAct)

\* ================================================================ claims
\* ---------------------------------------------------------- activation
HoleFree == \A b \in 0 .. (inode.last_block - 1) : bmap(b) # 0

HasHole == ~HoleFree

ActSucceeded == act.pc = "return" /\ act.ret >= 0

\* The slots an extent covers.
SlotsOf(e) == e.start_page .. (e.start_page + e.nr_pages - 1)

ExtentsDisjoint ==
    \A i, j \in 1 .. Len(sis.extents) :
        i # j => SlotsOf(sis.extents[i]) \cap SlotsOf(sis.extents[j]) = {}

ExtentsUnion == UNION {SlotsOf(sis.extents[i]) : i \in 1 .. Len(sis.extents)}

\* C9 as stated: after a successful activation of a hole-free layout the
\* extents are pairwise disjoint and cover exactly [0, sis->max).
C9_Original ==
    (ActSucceeded /\ HoleFree) =>
        /\ ExtentsDisjoint
        /\ ExtentsUnion = 0 .. (sis.max - 1)

\* C9 (amended): after a successful activation of a hole-free layout the
\* extents are pairwise disjoint; when the scan recorded at least one slot
\* they cover exactly [0, sis->max); when it recorded none, the slot count
\* is forced to 1 and the extent set is empty.
C9_ExtentsCoverSlots ==
    (ActSucceeded /\ HoleFree) =>
        /\ ExtentsDisjoint
        /\ act.recorded > 0 => ExtentsUnion = 0 .. (sis.max - 1)
        /\ act.recorded = 0 => (sis.max = 1 /\ ExtentsUnion = {})

\* A hole-free layout activated into two separate extents covering 3 slots.
C9_Witness ==
    /\ ActSucceeded /\ HoleFree
    /\ Len(sis.extents) >= 2
    /\ sis.max = 3

\* Activation is over: it succeeded, or it failed and swapon has cleaned up.
ActOver == act.pc = "failed" \/ ActSucceeded

\* C10 as stated: whenever the layout contains a hole, activation fails with
\* -EINVAL, no extent added by the scan remains, and max, pages and
\* highest_bit are as on entry (a scan cut short by an extent allocation
\* failure is left aside).
C10_Original ==
    (ActOver /\ HasHole /\ act.ret # -ENOMEM) =>
        /\ act.ret = -EINVAL
        /\ sis.extents = sis0.extents
        /\ sis.max = sis0.max
        /\ sis.pages = sis0.pages
        /\ sis.highest_bit = sis0.highest_bit

ProbedHole == \E b \in act.probed : bmap(b) = 0

\* C10 (amended): activation fails with -EINVAL exactly when the scan reads
\* an unmapped block (a hole it never reads, past the declared slot count or
\* in the file's tail, does not fail it).  It then leaves max, pages and
\* highest_bit as on entry; the extents recorded before the hole (slots
\* [0, page_no)) are still in the store when generic_swapfile_activate
\* returns and are gone once the caller's failure path has run.
C10_HoleFailsActivation ==
    /\ act.pc = "loop" => ~ProbedHole
    /\ act.pc \in {"return", "failed"} =>
        /\ ProbedHole <=> act.ret = -EINVAL
        /\ ProbedHole =>
            /\ sis.max = sis0.max
            /\ sis.pages = sis0.pages
            /\ sis.highest_bit = sis0.highest_bit
            /\ act.pc = "return" => ExtentsUnion = 0 .. (act.page_no - 1)
            /\ act.pc = "failed" => sis.extents = <<>>

\* A scan that failed on a hole in the second block of a stride after
\* having recorded a slot.
C10_Witness ==
    /\ act.pc = "failed" /\ act.ret = -EINVAL
    /\ act.recorded >= 1
    /\ blocks_per_page = 2
    /\ bmap(act.probe_block) # 0


\* ----------------------------------------------------- claims on the I/O path
WriteCall(c) == ctx[c].fn = "swap_writepage"

ReadCall(c) == ctx[c].fn \in {"swap_readpage", "swap_readpage_async"}

Returned(c) == ctx[c].pc = "return"

\* The request of context b has been handed to its completion handler, or
\* the context has no request.
Completed(b) == bio[b].state # "inflight"

WriteBranches == {"free", "frontswap", "fs_ok", "fs_short", "fast", "nomem",
                  "generic"}

\* C2: on every branch of swap_writepage/__swap_writepage the page lock the
\* caller held on entry has been released by the time the call returns (and
\* the caller does hold it while the call is still deciding its branch).
C2_WriteReturnsUnlocked ==
    \A c \in Ctx :
        /\ ctx[c].pc \in {"swap_writepage", "__swap_writepage"}
              => page.locked /\ page.holder = c
        /\ (Returned(c) /\ WriteCall(c))
              => /\ page.holder # c
                 /\ ctx[c].branch \in WriteBranches

\* A write call has returned from the allocation-failure branch and the
\* page is unlocked.
C2_Witness ==
    \E c \in Ctx : /\ Returned(c) /\ WriteCall(c)
                   /\ ctx[c].branch = "nomem"
                   /\ ~page.locked

\* C3 as stated: once a read call has returned and any request it submitted
\* has completed, the caller's lock on the page has been released, on every
\* branch.
C3_Original ==
    \A c \in Ctx :
        (Returned(c) /\ ReadCall(c) /\ Completed(c)) => page.holder # c

\* C3: on every branch but the front-end cache hit the caller's lock has
\* been released once the read call has returned and its request, if any,
\* has completed; on a front-end cache hit the call returns with the page
\* still locked, and it stays locked until the cache's transfer arrives.
C3_ReadReturnsUnlocked ==
    /\ \A c \in Ctx :
        (Returned(c) /\ ReadCall(c) /\ Completed(c))
            => IF ctx[c].branch = "frontswap"
               THEN store.fsw_pending => (page.locked /\ page.holder = c)
               ELSE page.holder # c
    /\ store.fsw_pending => (page.locked /\ ~page.uptodate)

\* A blocking read has returned from the generic branch after a failed
\* request and the page is unlocked.
C3_Witness ==
    \E c \in Ctx : /\ Returned(c) /\ ReadCall(c)
                   /\ ctx[c].branch = "generic"
                   /\ bio[c].state \in {"h_put", "h_wake", "h_done"}
                   /\ bio[c].status # 0
                   /\ ~page.locked

\* C4 as stated: neither path keeps the page locked while a request it
\* submitted awaits its completion handler.
C4_Original ==
    \A b \in Ctx : bio[b].state = "inflight" => page.holder # b

\* C4: the write path releases the page lock before it submits its request
\* (the lock is gone when the call is about to submit and while the request
\* is in flight); the read path keeps the page locked for as long as its
\* request is in flight, the lock being released by the read completion
\* handler.
C4_LockAcrossSubmission ==
    \A b \in Ctx :
        /\ ctx[b].pc = "wp_submit_bio" => page.holder # b
        /\ bio[b].state = "inflight"
              => IF bio[b].op = "write"
                 THEN page.holder # b
                 ELSE page.locked /\ page.holder = b

\* An asynchronous read has returned while its request is in flight and the
\* page is still locked.
C4_Witness ==
    \E b \in Ctx : /\ bio[b].state = "inflight" /\ bio[b].op = "read"
                   /\ Returned(b) /\ ~ctx[b].sync
                   /\ page.locked

\* The read completion handler has run for the request of context b up to
\* and past the clearing of the request's waiting-task reference.
HandlerRan(b) ==
    /\ bio[b].state \in {"h_put", "h_wake", "h_done", "free"}
    /\ bio[b].bi_private = NULL

\* C7: a blocking-poll read on the generic branch leaves its wait loop, and
\* returns, only after the read completion handler has run for its request:
\* the handler has set uptodate (success) or error (failure), released the
\* caller's lock and cleared the waiting-task reference.
C7_SyncReadWaitsForHandler ==
    \A c \in Ctx :
        (/\ ctx[c].fn = "swap_readpage" /\ ctx[c].sync
         /\ \/ ctx[c].pc = "rd_put"
            \/ ctx[c].pc = "rd_out" /\ ctx[c].branch = "generic"
            \/ Returned(c) /\ ctx[c].branch = "generic")
            => /\ HandlerRan(c)
               /\ page.holder # c
               /\ page.uptodate \/ page.error
               /\ bio[c].state # "free"
                     => IF bio[c].status = 0 THEN page.uptodate ELSE page.error

\* A blocking-poll read has returned from the generic branch; its request
\* succeeded and is still held by the handler.
C7_Witness ==
    \E c \in Ctx : /\ Returned(c) /\ ctx[c].fn = "swap_readpage" /\ ctx[c].sync
                   /\ ctx[c].branch = "generic"
                   /\ bio[c].state = "h_put" /\ bio[c].status = 0
                   /\ page.uptodate /\ ~page.locked


\* A write call of context c takes a failure branch in this step
\* (allocation failure, or a direct write that was not of a whole page):
\* the step of its set_page_dirty.
WriteCallRedirties(c) ==
    /\ WriteCall(c)
    /\ ctx[c].branch \notin {"nomem", "fs_short"}
    /\ ctx'[c].branch \in {"nomem", "fs_short"}

\* A write call of context c ends as a failed one in this step: it returns
\* an error, or after a direct write that was not of a whole page (the call
\* then returns what direct_IO returned, which may be 0 or a positive
\* count).
WriteCallFails(c) ==
    /\ WriteCall(c) /\ ~Returned(c)
    /\ ctx'[c].pc = "return"
    /\ ctx'[c].ret # 0 \/ ctx'[c].branch = "fs_short"

\* The completion handler of a failed write request marks the page dirty
\* in this step (its set_page_dirty).
FailedWriteRedirties(b) ==
    /\ bio[b].op = "write" /\ bio[b].status # 0
    /\ bio[b].state = "w_redirty" /\ bio'[b].state # "w_redirty"

\* The completion handler of a failed write request ends the failure
\* handling in this step (its end_page_writeback).
FailedWriteEnds(b) ==
    /\ bio[b].op = "write" /\ bio[b].status # 0
    /\ bio[b].state = "w_end" /\ bio'[b].state # "w_end"

\* The completion handler takes a failed request of the given direction in
\* this step.
RequestFails(b, op) ==
    /\ bio[b].state = "inflight" /\ bio[b].op = op /\ bio[b].status # 0
    /\ bio'[b].state # "inflight"

\* A read call of context c takes the allocation-failure branch in this
\* step (it unlocks the page and goes to its exit).
ReadAllocFails(c) ==
    /\ ReadCall(c) /\ ctx[c].pc = "swap_readpage"
    /\ ctx'[c].pc = "rd_out" /\ ctx'[c].branch = "nomem"

\* This step is one of the write path (a step of a write call or of the
\* write completion handler).
WritePathStep ==
    \/ \E c \in Ctx : /\ ctx'[c] # ctx[c]
                      /\ WriteCall(c) \/ ctx'[c].fn = "swap_writepage"
    \/ \E b \in Ctx : bio[b].op = "write" /\ bio'[b] # bio[b]

\* What every failed write does, whoever else runs: its failure handling
\* marks the page dirty, it does not hold the page lock when it ends (after
\* an allocation failure the page is then unlocked), and no step of the
\* write path changes uptodate.
FailedWriteHandling ==
    /\ \A c \in Ctx : WriteCallRedirties(c) => page'.dirty
    /\ \A b \in Ctx : FailedWriteRedirties(b) => page'.dirty
    /\ \A c \in Ctx : WriteCallFails(c)
          => /\ page'.holder # c
             /\ ctx'[c].branch \in {"nomem", "fs_short"}
             /\ ctx'[c].branch = "nomem" => ~page'.locked /\ page'.dirty
    /\ \A b \in Ctx : FailedWriteEnds(b) => page'.holder # b
    /\ WritePathStep => (page'.uptodate = page.uptodate)

\* The page is dirty when the handling of a failed write ends (the call
\* returns, the completion handler ends writeback).
FailedWriteLeavesPageDirty ==
    /\ \A c \in Ctx : WriteCallFails(c) => page'.dirty
    /\ \A b \in Ctx : FailedWriteEnds(b) => page'.dirty

\* What C1 says of a read request the device failed.
FailedReadRequestLeavesPage ==
    \A b \in Ctx : RequestFails(b, "read")
          => ~page'.locked /\ ~page'.uptodate /\ page'.error

\* C1 as stated: every failed write leaves the page dirty and unlocked and
\* with uptodate untouched; every failed read (allocation failure or device
\* error) leaves the page unlocked, not uptodate and with the error flag set.
C1_Original ==
    [][/\ FailedWriteHandling
       /\ FailedWriteLeavesPageDirty
       /\ FailedReadRequestLeavesPage
       /\ \A c \in Ctx : ReadAllocFails(c)
             => ~page'.locked /\ ~page'.uptodate /\ page'.error]_vars

\* C1: every failed write (allocation failure, device error, short direct
\* write) marks the page dirty, does not hold the page lock when its
\* failure handling ends and never changes uptodate; the page is still
\* dirty when the handling ends as long as no writer was let in while the
\* page was under writeback.  A read request the device failed leaves the
\* page unlocked, not uptodate and with the error flag set; a read whose
\* request allocation failed leaves the page unlocked and not uptodate,
\* with the error flag as it was.
C1_FailureLeavesPage ==
    [][/\ FailedWriteHandling
       /\ ~ghost'.reentered => FailedWriteLeavesPageDirty
       /\ FailedReadRequestLeavesPage
       /\ \A c \in Ctx : ReadAllocFails(c)
             => /\ ~page'.locked /\ ~page'.uptodate
                /\ page'.error = page.error]_vars

\* A read has returned from the allocation-failure branch: the page is
\* unlocked, not uptodate, and its error flag is clear.
C1_Witness ==
    \E c \in Ctx : /\ Returned(c) /\ ReadCall(c)
                   /\ ctx[c].branch = "nomem"
                   /\ ~page.locked /\ ~page.uptodate /\ ~page.error

\* Where a call is between its set_page_writeback and its own
\* end_page_writeback (the front-end-cache and filesystem branches).
OwnWritebackPcs == {"wp_frontswap_end", "wp_direct_IO", "wp_fs_count",
                    "wp_fs_clear_reclaim", "wp_fs_end"}

\* Where a write request is between the set_page_writeback of its call and
\* the end_page_writeback of its completion handler.
OpenRequestStates == {"built", "inflight", "w_redirty", "w_clear_reclaim",
                      "w_end"}

\* The writeback intervals the write path has opened and not yet ended:
\* calls between set_page_writeback and their own end_page_writeback, and
\* write requests about to be submitted or awaiting the completion handler.
OpenIntervals ==
    Cardinality({c \in Ctx : ctx[c].pc \in OwnWritebackPcs})
    + Cardinality({b \in Ctx : /\ bio[b].state \in OpenRequestStates
                               /\ bio[b].op = "write"})

\* Every set_page_writeback of the write path is ended exactly once: by
\* the call itself before it returns on the front-end-cache and filesystem
\* branches, by the write completion handler on the generic branch; it is
\* never set on the discardable-content and allocation-failure branches.
\* Every open interval has its ending step enabled, and with no interval
\* open the writeback flag is clear.
WritebackAccounted ==
    /\ stat.wbsets = stat.wbends + OpenIntervals
    /\ OpenIntervals = 0 => ~page.writeback
    /\ \A c \in Ctx :
        /\ (ctx[c].pc \in OwnWritebackPcs
             \/ (bio[c].state \in OpenRequestStates /\ bio[c].op = "write"))
              => ENABLED EndsWriteback(c)
        /\ ctx[c].pc \in OwnWritebackPcs \cup {"wp_submit_bio"}
              => ctx[c].wbset = 1 /\ ctx[c].wbend = 0
        /\ ctx[c].pc = "wp_submit_bio" <=> bio[c].state = "built"
        /\ (Returned(c) /\ WriteCall(c))
              => CASE ctx[c].branch \in {"free", "nomem", "fast"}
                        -> ctx[c].wbset = 0 /\ ctx[c].wbend = 0
                   [] ctx[c].branch \in {"frontswap", "fs_ok", "fs_short"}
                        -> ctx[c].wbset = 1 /\ ctx[c].wbend = 1
                   [] ctx[c].branch = "generic"
                        -> ctx[c].wbset = 1 /\ ctx[c].wbend = 0
                   [] OTHER -> FALSE

\* C5: every set_page_writeback of the write path is ended exactly once (by
\* the call itself on the front-end-cache and filesystem branches, by the
\* write completion handler on the generic branch, never set on the
\* discardable-content and allocation-failure branches); hence, when every
\* submitted request eventually completes, a page under writeback is
\* eventually not under writeback.
C5_WritebackEndedOnce ==
    /\ []WritebackAccounted
    /\ (page.writeback ~> ~page.writeback)

\* A generic write whose request failed has been completed: the one
\* interval it opened has been ended by the handler and writeback is clear.
C5_Witness ==
    \E c \in Ctx : /\ Returned(c) /\ WriteCall(c)
                   /\ ctx[c].branch = "generic"
                   /\ bio[c].state = "free"
                   /\ page.error
                   /\ stat.wbsets = 1 /\ stat.wbends = 1
                   /\ ~page.writeback

InFlight(op) == {b \in Ctx : bio[b].state = "inflight" /\ bio[b].op = op}

NoOverlap ==
    /\ Cardinality(InFlight("write")) <= 1
    /\ Cardinality(InFlight("read")) <= 1
    /\ OpenIntervals <= 1

\* C6 as stated: with the page lock as the only serialization, at most one
\* write request and one read request are in flight and no two writeback
\* intervals overlap.
C6_Original == NoOverlap

\* A read request of context b is past its completion handler's
\* unlock_page, the handler still running.
ReadHandlerUnlocked(b) ==
    bio[b].op = "read" /\ bio[b].state \in {"h_clear", "h_put", "h_wake"}

\* C6: when every caller takes the page lock before calling in and write is
\* only called while the page's writeback flag is clear, at most one write
\* request and at most one read request are in flight and no two writeback
\* intervals overlap; reads are serialized by the page lock alone: a read
\* request in flight holds the page locked for its caller, so no other call
\* is under the page lock before the read completion handler has unlocked
\* the page.
C6_NoOverlappingWriteback ==
    /\ ~ghost.reentered => NoOverlap
    /\ Cardinality(InFlight("read")) <= 1
    /\ \A b \in InFlight("read") :
          /\ page.locked /\ page.holder = b
          /\ \A c \in Ctx \ {b} :
                ctx[c].pc \notin {"swap_writepage", "__swap_writepage",
                                  "swap_readpage"}

\* Two reads of the same page: the request of the second is in flight and
\* holds the page locked, while the completion handler of the first, which
\* the device failed, has unlocked the page and is still running.
C6_Witness ==
    \E b, c \in Ctx :
        /\ b # c
        /\ ReadHandlerUnlocked(b) /\ bio[b].status # 0
        /\ c \in InFlight("read")
        /\ page.locked /\ page.holder = c
        /\ ~ghost.reentered

\* C8 as stated: a fresh page read from the slot holds the content last
\* written to the slot.
C8_RoundTrip ==
    (page.gen = "fresh" /\ page.uptodate) => page.data = ghost.slotval

\* The stores whose slot placement differs from the slot number.
ExtentMapped == \E i \in 1..Len(sis.extents) :
                    sis.extents[i].start_block # sis.extents[i].start_page

\* The round trip holds on every store where the slot number is the device
\* block (what swap_page_sector assumes).
RoundTripOnIdentityStores == ~ExtentMapped => C8_RoundTrip


\* ------------------------------------------------ activation, continued
\* Whole page-sized strides of the file.
FilePages == inode.last_block \div blocks_per_page

\* The file maps to FilePages strides that are page-aligned and physically
\* contiguous with one another.
ContiguousFile ==
    /\ FilePages >= 2
    /\ bmap(0) # 0
    /\ bmap(0) % blocks_per_page = 0
    /\ \A b \in 0 .. (FilePages * blocks_per_page - 1) : bmap(b) = bmap(0) + b

\* C11: for n >= 2, a file of n page-aligned strides physically contiguous
\* with one another, activated with a declared slot count >= n, gives (when
\* add_swap_extent can allocate) 1 extent, span n - 1 and slot count n.
C11_ContiguousFileOneExtent ==
    (act.pc = "return" /\ ContiguousFile /\ sis0.max >= FilePages
       /\ act.ret # -ENOMEM)
        => /\ act.ret = 1
           /\ Len(sis.extents) = 1
           /\ sis.extents[1] = [start_page |-> 0, nr_pages |-> FilePages,
                                start_block |-> bmap(0) \div blocks_per_page]
           /\ act.span = FilePages - 1
           /\ sis.max = FilePages

\* The spec's instance: 4 contiguous strides give 1 extent, span 3 and
\* slot count 4.
C11_Witness ==
    /\ act.pc = "return" /\ ContiguousFile /\ FilePages = 4
    /\ act.ret = 1 /\ act.span = 3 /\ sis.max = 4

\* The physical page the extents assign to a slot.
ExtentBlock(slot) ==
    LET i == CHOOSE i \in 1 .. Len(sis.extents) : slot \in SlotsOf(sis.extents[i])
    IN  sis.extents[i].start_block + (slot - sis.extents[i].start_page)

\* Slot i - 1 was recorded at file block slot_probe[i]: its blocks_per_page
\* file blocks are mapped, physically consecutive and start page-aligned;
\* the extents give the slot that physical page.
SlotWellFormed(i) ==
    LET p == act.slot_probe[i]
    IN  /\ p + blocks_per_page <= inode.last_block
        /\ bmap(p) # 0
        /\ bmap(p) % blocks_per_page = 0
        /\ \A j \in 0 .. (blocks_per_page - 1) :
              bmap(p + j) # 0 /\ bmap(p + j) = bmap(p) + j
        /\ act.pc # "failed" => ExtentBlock(i - 1) = bmap(p) \div blocks_per_page

RecordedSlotsWellFormed ==
    /\ Len(act.slot_probe) = act.recorded
    /\ act.pc = "loop" => act.page_no = act.recorded
    /\ \A i \in 1 .. Len(act.slot_probe) : SlotWellFormed(i)
    /\ \A i, k \in 1 .. Len(act.slot_probe) :
          i < k => act.slot_probe[i] + blocks_per_page <= act.slot_probe[k]

\* A reprobe (misaligned first block, or a discontiguity) moves the probe by
\* one block and records nothing.
ReprobeStep ==
    (LoopCond /\ ProbeOutcome(act.probe_block) = "reprobe")
        => /\ act'.probe_block = act.probe_block + 1
           /\ act'.page_no = act.page_no
           /\ act'.slot_probe = act.slot_probe
           /\ sis' = sis

\* C16: at every point of the scan each recorded slot is blocks_per_page
\* consecutive file blocks, all mapped, physically consecutive and starting
\* page-aligned; slots are numbered 0, 1, 2, ... in increasing file-block
\* order without gaps and their file-block ranges do not overlap; a reprobe
\* advances the probe by exactly one block without recording a slot.
C16_RecordedSlots ==
    /\ []RecordedSlotsWellFormed
    /\ [][ReprobeStep]_vars

\* The scan has reprobed past a misaligned block and then recorded two
\* slots of two blocks each.
C16_Witness ==
    /\ act.pc = "loop"
    /\ blocks_per_page = 2
    /\ Len(act.slot_probe) = 2
    /\ act.slot_probe[1] = 1

\* Every iteration that stays in the loop moves the probe forward.
ProbeAdvances ==
    (act.pc = "loop" /\ act'.pc = "loop" /\ act' # act)
        => act'.probe_block > act.probe_block

\* The loop is left normally only when the slot count is reached or less
\* than one page of file blocks remains, and it is left then.
NormalExit ==
    /\ (act.pc = "loop" /\ act'.pc = "return" /\ act'.ret >= 0)
          => (act.page_no >= sis.max
              \/ act.probe_block + blocks_per_page > inode.last_block)
    /\ (act.pc = "loop" /\ (act.page_no >= sis.max
              \/ act.probe_block + blocks_per_page > inode.last_block))
          => (act'.pc = "return" \/ act' = act)

SlotsBounded ==
    /\ act.recorded <= sis0.max
    /\ act.recorded <= FilePages
    /\ act.probe_block <= inode.last_block

\* C17: the scan terminates for every block layout and declared slot count;
\* the probe strictly increases on every iteration, reprobes included; the
\* loop runs exactly until the declared slot count is reached or less than
\* one page of file blocks remains (unless a hole or an allocation failure
\* ends it before); the slots recorded never exceed the declared maximum
\* nor floor(file_blocks / blocks_per_page).
C17_ScanTerminates ==
    /\ <>(act.pc # "loop")
    /\ []SlotsBounded
    /\ [][ProbeAdvances /\ NormalExit]_vars

\* The scan has ended normally after reprobes, short of the declared
\* slot count because the file ran out.
C17_Witness ==
    /\ act.pc = "return" /\ act.ret >= 0
    /\ act.recorded < sis0.max
    /\ act.recorded >= 1
    /\ act.probe_block > act.recorded * blocks_per_page

\* The physical pages of the data slots (slots >= 1).
DataBlocks == {ExtentBlock(slot) : slot \in 1 .. (act.recorded - 1)}

Lowest(S) == CHOOSE x \in S : \A y \in S : x <= y

Highest(S) == CHOOSE x \in S : \A y \in S : x >= y

\* Number of page blocks from the lowest to the highest data block.
RangeSize(S) == IF S = {} THEN 0 ELSE 1 + Highest(S) - Lowest(S)

\* C20 as stated: on every successful activation the span is the size of
\* the range of the data slots' physical pages, at least the number of data
\* slots, and 0 when there is no data slot; the slot count is >= 1 and
\* pages and highest_bit are slot count - 1.
C20_SpanIsRange ==
    ActSucceeded =>
        /\ act.span = RangeSize(DataBlocks)
        /\ act.span >= Cardinality(DataBlocks)
        /\ sis.max >= 1
        /\ sis.pages = sis.max - 1
        /\ sis.highest_bit = sis.max - 1

\* The claim holds whenever the scan recorded a data slot, and the slot
\* counts are as claimed in every successful activation; without a data
\* slot the span is 1 + 0 - (2^64 - 1) wrapped, that is 2.
SpanWithDataSlots ==
    ActSucceeded =>
        /\ act.recorded >= 2 => act.span = RangeSize(DataBlocks)
        /\ act.recorded >= 2 => act.span >= act.recorded - 1
        /\ act.recorded <= 1 => act.span = 2
        /\ sis.max >= 1
        /\ sis.pages = sis.max - 1
        /\ sis.highest_bit = sis.max - 1

\* ------------------------------------------- claims on the I/O path, continued
\* Context c has built a write request and prepares the page for its
\* submission in this step (the step before submit_bio).
WriteSubmitted(c) ==
    /\ bio[c].state = "free"
    /\ bio'[c].state = "built" /\ bio'[c].op = "write"

\* The step of context b is one of the completion handler of its failed
\* write request.
FailedWriteHandlerStep(b) ==
    /\ bio[b].op = "write" /\ bio[b].status # 0
    /\ bio[b].state \in {"inflight", "w_redirty", "w_clear_reclaim", "w_end",
                          "w_put"}
    /\ bio'[b] # bio[b]

\* What the completion of a failed write request does to the page, whoever
\* else runs: when the handler ends writeback the error flag is set and
\* writeback is clear, the page lock is as it was (the call unlocked the
\* page before submitting, the write does not hold it), the handler marked
\* the page dirty on its way, then releases the request, and it leaves the
\* pages-written counter alone.
FailedWriteCompletion ==
    \A b \in Ctx :
        /\ FailedWriteRedirties(b) => page'.dirty
        /\ FailedWriteEnds(b)
              => /\ page'.error /\ ~page'.writeback
                 /\ page'.holder # b /\ page'.locked = page.locked
                 /\ bio'[b].state = "w_put"
        /\ FailedWriteHandlerStep(b)
              => /\ stat'.pswpout = stat.pswpout
                 /\ page'.holder # b /\ page'.locked = page.locked
                 /\ bio[b].state = "w_put" => bio'[b].state = "free"

\* C12 as stated: a generic write the device fails leaves the page dirty,
\* unlocked and with writeback cleared, and the pages-written counter is not
\* incremented for that write (neither when it is submitted nor when it
\* completes).
C12_Original ==
    [][/\ FailedWriteCompletion
       /\ \A b \in Ctx : FailedWriteEnds(b) => page'.dirty
       /\ \A c \in Ctx : WriteSubmitted(c) /\ bio'[c].status # 0
             => stat'.pswpout = stat.pswpout]_vars

\* C12: the completion of a generic write the device failed sets the error
\* flag, marks the page dirty and ends writeback without taking the page
\* lock, and the page is still dirty when writeback ends as long as no
\* writer was let in while the page was under writeback; the pages-written
\* counter was incremented once for that write just before its request was
\* submitted, whatever the device reports later, and the submission and
\* the completion leave the counter alone.
C12_FailedGenericWrite ==
    [][/\ FailedWriteCompletion
       /\ \A b \in Ctx : FailedWriteEnds(b) /\ ~ghost'.reentered => page'.dirty
       /\ \A c \in Ctx : WriteSubmitted(c)
             => stat'.pswpout = stat.pswpout + 1
       /\ \A c \in Ctx : bio[c].state = "built" /\ bio'[c] # bio[c]
             => /\ bio'[c].state = "inflight"
                /\ stat'.pswpout = stat.pswpout]_vars

\* The first call wrote the page to a block-device store through a request
\* the device failed: the page is dirty, unlocked, not under writeback, has
\* the error flag, and the write was counted.
C12_Witness ==
    /\ "SWP_BLKDEV" \in sis.flags
    /\ stat.calls = 1
    /\ \E c \in Ctx : /\ WriteCall(c) /\ ctx[c].branch = "generic"
                      /\ bio[c].state = "free"
    /\ page.error /\ page.dirty /\ ~page.locked /\ ~page.writeback
    /\ stat.pswpout = 1

\* Context c is in the blocking-poll loop of a synchronous read (between
\* submit_bio and the return).
InPollLoop(c) ==
    /\ ctx[c].sync
    /\ ctx[c].pc \in {"rd_set_state", "rd_check", "rd_poll", "rd_io_schedule",
                      "rd_put"}

\* Context c is suspended: it sleeps in io_schedule until it is woken.
Suspended(c) ==
    ctx[c].pc = "rd_io_schedule" /\ ctx[c].task = "UNINTERRUPTIBLE"

\* The completion handler of the request of context b has yet to wake the
\* waiter w.
WakePending(b, w) ==
    \/ bio[b].state = "inflight" /\ bio[b].bi_private = w
    \/ bio[b].state \in {"h_clear", "h_put", "h_wake"} /\ bio[b].waiter = w

\* C13: no lost wake-up in the blocking-poll read.  Under every
\* interleaving of the waiter's steps with the completion handler's, when
\* the submitted request completes the blocked reader resumes and returns;
\* and whenever the reader is suspended, the wake-up of its request's
\* handler is still to come (the request has not completed with the reader
\* left asleep).
C13_NoLostWakeup ==
    /\ \A c \in Ctx : InPollLoop(c) ~> Returned(c)
    /\ [](\A c \in Ctx : Suspended(c) => WakePending(c, c))

\* The reader is suspended while the handler of its request has unlocked the
\* page, cleared the waiting-task reference and is about to wake it.
C13_Witness ==
    \E c \in Ctx : /\ Suspended(c)
                   /\ bio[c].state = "h_wake" /\ bio[c].bi_private = NULL
                   /\ bio[c].waiter = c /\ page.holder # c

\* The device is notified in this step that the slot's content may be
\* dropped.
NotifiedStep == stat'.notified # stat.notified

\* The read completion handler takes the successful request of context b in
\* this step, with the page still locked for that read.
HandlerReadsOk(b) ==
    /\ bio[b].state = "inflight" /\ bio[b].op = "read" /\ bio[b].status = 0
    /\ bio'[b].state = "h_clear"
    /\ page.locked /\ page.holder = b

\* Context c, whose fast single-page read succeeded, takes the page lock
\* with trylock_page in this step.
FastReadTrylocks(c) ==
    /\ ctx[c].pc = "rd_trylock" /\ ctx'[c].pc = "rd_count"
    /\ ctx[c].branch = "fast"
    /\ page.uptodate /\ ~page.locked

\* This step is one of the read path (a step of a read call or of the read
\* completion handler).
ReadPathStep ==
    \/ \E c \in Ctx : ReadCall(c) /\ ctx'[c] # ctx[c]
    \/ \E b \in Ctx : bio[b].op = "read" /\ bio'[b] # bio[b]

\* C14: the slot-free notification is issued, and the page re-marked dirty,
\* only after a successful read of a swap-cache page, with the page lock
\* held (in the completion handler before it unlocks, or under a successful
\* trylock after the fast single-page read), on a block-device-backed store
\* (never a filesystem-backed one) whose device supports the notification,
\* and when the slot's reference count is exactly 1; whenever the device is
\* notified the page is dirty; and the read path dirties the page in no
\* other case.
C14_NotifyOnlyWhen ==
    [][/\ NotifiedStep
            => /\ stat'.notified = stat.notified + 1
               /\ page.swapcache
               /\ "SWP_BLKDEV" \in sis.flags /\ "SWP_FS" \notin sis.flags
               /\ sis.notify
               /\ sis.swap_count = 1
               /\ \/ \E b \in Ctx : HandlerReadsOk(b)
                  \/ \E c \in Ctx : FastReadTrylocks(c)
               /\ page'.dirty /\ page'.uptodate
               /\ store'.dev[PageToSector(page.private)] = 0
       /\ ReadPathStep /\ page'.dirty # page.dirty => NotifiedStep]_vars

\* The completion handler of a successful read has just notified the device
\* (it has still to clear the waiting-task reference): the page is dirty,
\* uptodate and unlocked.
C14_Witness ==
    /\ stat.notified = 1
    /\ "SWP_BLKDEV" \in sis.flags /\ sis.notify /\ sis.swap_count = 1
    /\ \E b \in Ctx : bio[b].state = "h_clear" /\ bio[b].status = 0
    /\ page.dirty /\ page.uptodate /\ ~page.locked /\ page.swapcache

\* The front-end cache load of the read call of context c reports a hit in
\* this step, and the call returns.
FrontswapHit(c) ==
    /\ ReadCall(c) /\ ctx[c].pc = "swap_readpage"
    /\ ctx'[c].pc = "return" /\ ctx'[c].branch = "frontswap"

\* C15: on a front-end cache hit the read call (swap_readpage in either
\* mode, swap_readpage_async) returns 0 at once and changes nothing it owns:
\* the page's flags are as on entry (still locked by the caller, still not
\* uptodate), no request is built or submitted, the pages-read counter and
\* the notification count are unchanged, no stall interval is opened, and
\* the device is not touched.
C15_FrontswapHitFrame ==
    [][\A c \in Ctx : FrontswapHit(c)
          => /\ ctx'[c].ret = 0
             /\ page' = page
             /\ page.locked /\ page.holder = c /\ ~page.uptodate
             /\ bio' = bio /\ bio[c].state = "free"
             /\ stat' = stat
             /\ ctx'[c].psi = FALSE /\ ctx'[c].stalls = 0
             /\ store'.dev = store.dev /\ store'.file = store.file
             /\ store'.fsw = store.fsw]_vars

\* An asynchronous read has returned from a front-end cache hit: the page is
\* still locked by the caller and not uptodate, nothing was counted and the
\* context has no request.
C15_Witness ==
    \E c \in Ctx : /\ Returned(c) /\ ctx[c].fn = "swap_readpage_async"
                   /\ ctx[c].branch = "frontswap" /\ ctx[c].ret = 0
                   /\ page.locked /\ page.holder = c /\ ~page.uptodate
                   /\ bio[c].state = "free" /\ ctx[c].stalls = 0
                   /\ stat.pswpin = 0 /\ stat.notified = 0

\* The sector the generic request builder addresses for a slot: the extent
\* lookup of get_swap_bio.
RequestSector(off) == get_swap_bio([page EXCEPT !.private = off], "read", NULL).bi_sector

\* C18: on every store without SWP_FS, for every slot, the fast single-page
\* shortcut (swap_page_sector) and the generic request builder
\* (get_swap_bio) address the same device sector; in particular a request in
\* flight for the page is at the sector the shortcut would use.
C18_SameSector ==
    "SWP_FS" \notin sis.flags
        => /\ \A off \in 0 .. (sis.max - 1) :
                 swap_page_sector([page EXCEPT !.private = off]) = RequestSector(off)
           /\ \A b \in Ctx : bio[b].state = "inflight"
                 => bio[b].bi_sector = swap_page_sector(page)

\* The two agree on the stores whose extents map every slot to the device
\* block of the same number.
SameSectorOnIdentityStores == ~ExtentMapped => C18_SameSector

\* The submitting call of context c still holds its reference to the
\* request (from bio_get to its bio_put).
SubmitterHolds(c) ==
    ctx[c].pc \in {"rd_set_state", "rd_check", "rd_poll", "rd_io_schedule",
                   "rd_put"}

\* The completion handler still holds the reference the request was
\* allocated with (until its bio_put); these are the states in which it
\* reads or writes the request.
HandlerHolds(b) == bio[b].state \in {"inflight", "h_clear", "h_put"}

\* The references to the read request of context b are those of the
\* submitter and the handler that have not been dropped; the task reference
\* of context b is held exactly while a handler has yet to wake it.
ReadRequestRefs ==
    \A b \in Ctx :
        /\ bio[b].op = "read"
              => bio[b].refs = (IF SubmitterHolds(b) THEN 1 ELSE 0)
                               + (IF HandlerHolds(b) THEN 1 ELSE 0)
        /\ bio[b].op # "read" => ~SubmitterHolds(b)
        /\ ctx[b].usage = (IF WakePending(b, b) THEN 1 ELSE 0)

\* The steps that change the counts: the request loses one reference at a
\* time, its last one only when neither side holds it any longer; the
\* task reference is dropped by the handler of a blocking read, once, and an
\* asynchronous read never takes or drops it.
ReadRequestRefSteps ==
    \A b \in Ctx :
        /\ (bio[b].op = "read" /\ bio'[b].refs < bio[b].refs)
              => /\ \/ bio'[b].refs = bio[b].refs - 1
                    \/ bio'[b] = FreeBio /\ bio[b].refs = 0
                 /\ bio[b].refs >= 1 \/ bio[b].state = "h_wake"
        /\ ctx'[b].usage < ctx[b].usage
              => /\ ctx'[b].usage = ctx[b].usage - 1
                 /\ bio[b].state = "h_wake" /\ bio[b].waiter = b
                 /\ bio'[b].state # "h_wake"
        /\ (ctx[b].fn = "swap_readpage_async" \/ ~ctx[b].sync)
              /\ ctx[b].pc # "idle"
              => ctx'[b].usage = ctx[b].usage /\ ctx[b].usage = 0

\* C19: on the generic read branch the request is released once, after both
\* the submitting call and the completion handler have dropped their
\* references, under every interleaving: the submitter reads the
\* waiting-task field only while it holds its reference, the handler does
\* not touch the request after its own bio_put, and the task reference taken
\* in blocking mode is dropped exactly once, by the handler, and never taken
\* or dropped in asynchronous mode.
C19_RequestReleasedOnce ==
    /\ []ReadRequestRefs
    /\ [][ReadRequestRefSteps]_vars

\* The handler has dropped its reference and is about to wake the waiter,
\* while the submitter, still holding the last reference, is about to read
\* the waiting-task field.
C19_Witness ==
    \E c \in Ctx : /\ ctx[c].sync /\ ctx[c].pc = "rd_check"
                   /\ bio[c].state = "h_wake" /\ bio[c].refs = 1
                   /\ bio[c].bi_private = NULL /\ bio[c].waiter = c
                   /\ ctx[c].usage = 1

====
